---- MODULE Spec2Model ----
(***************************************************************************)
(* Model of index.js: the WhatsApp relay server with remote persistence of *)
(* the LocalAuth session folder and of the connection status record.       *)
(*                                                                         *)
(* File paths are sequences of segments ("/app/.wwebjs_auth/x" is          *)
(* <<"app", ".wwebjs_auth", "x">>); a blob key is the sequence of segments *)
(* of the relative path string.  File contents are byte sequences and blob *)
(* values are base64 texts, modelled as sequences of 6-bit digits with 64  *)
(* standing for the padding character.                                     *)
(***************************************************************************)
EXTENDS Integers, Sequences, FiniteSets, TLC

VARIABLES
    proc,        \* where the process is: boot, loading, restoring, loaded, running, exited, crashed
    fs,          \* local file system: path -> [type, data], domain = the existing nodes
    authRow,     \* remote table whatsapp_auth, row id 1: [exists, folder]
    sessionRow,  \* remote table whatsapp_sessions, row id 1: [exists, qr_code, status]
    isReady,     \* index.js:42
    currentQR,   \* index.js:43
    restore,     \* the writeFilesFromMap call of the start: keys left, map, and its history
    handlers,    \* lifecycle handler invocations, in the order the events were emitted
    sends,       \* POST /send-message requests: what each was answered and did
    fsOps,       \* how many times the protocol client changed the session folder
    failures,    \* how many requests the remote store has failed
    shut,        \* shutdown() invocations started by SIGINT / SIGTERM
    source,      \* history: the tree a snapshot was taken of on another machine
    msgs         \* message handler invocations, in the order the messages arrived

vars == <<proc, fs, authRow, sessionRow, isReady, currentQR, restore, handlers, sends, fsOps,
          failures, shut, source, msgs>>

----------------------------------------------------------------------------
(* Paths (node's path module, POSIX flavour)                               *)

NULL == "null"

AppDir == <<"app">>

AUTH_ROOT == AppDir \o <<".wwebjs_auth">>

AUTH_DIR == AUTH_ROOT \o <<"session-default">>

IsPrefix(p, q) == Len(p) <= Len(q) /\ SubSeq(q, 1, Len(p)) = p

\* path.dirname
Dirname(p) == IF Len(p) = 0 THEN <<>> ELSE SubSeq(p, 1, Len(p) - 1)

RECURSIVE NormalizeFrom(_, _)
NormalizeFrom(acc, segs) ==
    IF Len(segs) = 0 THEN acc
    ELSE LET s == Head(segs)
             nxt == IF s = "." \/ s = "" THEN acc
                    ELSE IF s = ".." THEN Dirname(acc)
                    ELSE Append(acc, s)
         IN NormalizeFrom(nxt, Tail(segs))

\* path.join(a, b) for an absolute a: concatenate, then resolve "." and ".."
PathJoin(a, b) == NormalizeFrom(<<>>, a \o b)

RECURSIVE CommonLen(_, _)
CommonLen(p, q) ==
    IF Len(p) = 0 \/ Len(q) = 0 \/ Head(p) # Head(q) THEN 0
    ELSE 1 + CommonLen(Tail(p), Tail(q))

\* path.relative(from, to) for absolute normalized paths
PathRelative(from, to) ==
    LET c == CommonLen(from, to)
    IN [i \in 1..(Len(from) - c) |-> ".."] \o SubSeq(to, c + 1, Len(to))

----------------------------------------------------------------------------
(* base64 (Buffer.toString('base64') and Buffer.from(s, 'base64'))         *)

PAD == 64

RECURSIVE Base64Encode(_)
Base64Encode(b) ==
    IF Len(b) = 0 THEN <<>>
    ELSE IF Len(b) = 1 THEN
        <<b[1] \div 4, (b[1] % 4) * 16, PAD, PAD>>
    ELSE IF Len(b) = 2 THEN
        <<b[1] \div 4, (b[1] % 4) * 16 + b[2] \div 16, (b[2] % 16) * 4, PAD>>
    ELSE
        <<b[1] \div 4, (b[1] % 4) * 16 + b[2] \div 16,
          (b[2] % 16) * 4 + b[3] \div 64, b[3] % 64>>
        \o Base64Encode(SubSeq(b, 4, Len(b)))

\* the digits before the first padding character
RECURSIVE Base64Digits(_)
Base64Digits(s) ==
    IF Len(s) = 0 \/ Head(s) = PAD THEN <<>>
    ELSE <<Head(s)>> \o Base64Digits(Tail(s))

RECURSIVE Base64DecodeDigits(_)
Base64DecodeDigits(d) ==
    IF Len(d) < 2 THEN <<>>
    ELSE IF Len(d) = 2 THEN
        <<d[1] * 4 + d[2] \div 16>>
    ELSE IF Len(d) = 3 THEN
        <<d[1] * 4 + d[2] \div 16, (d[2] % 16) * 16 + d[3] \div 4>>
    ELSE
        <<d[1] * 4 + d[2] \div 16, (d[2] % 16) * 16 + d[3] \div 4,
          (d[3] % 4) * 64 + d[4]>>
        \o Base64DecodeDigits(SubSeq(d, 5, Len(d)))

Base64Decode(s) == Base64DecodeDigits(Base64Digits(s))

----------------------------------------------------------------------------
(* The local file system (fs/promises)                                     *)

DirNode == [type |-> "dir", data |-> <<>>]

FileNode(bytes) == [type |-> "file", data |-> bytes]

Exists(f, p) == p = <<>> \/ p \in DOMAIN f

NodeType(f, p) == IF p = <<>> THEN "dir" ELSE f[p].type

Prefixes(p) == {SubSeq(p, 1, i) : i \in 1..Len(p)}

\* fsp.mkdir(d, {recursive: true}) rejects when a component exists and is no directory
MkdirOk(f, d) == \A q \in Prefixes(d) : Exists(f, q) => NodeType(f, q) = "dir"

Mkdir(f, d) ==
    LET new == Prefixes(d) \ DOMAIN f
    IN [q \in DOMAIN f \cup new |-> IF q \in new THEN DirNode ELSE f[q]]

\* fsp.writeFile(p, content) rejects on a directory (EISDIR) or a missing parent
WriteFileOk(f, p) ==
    /\ p # <<>>
    /\ Exists(f, Dirname(p)) /\ NodeType(f, Dirname(p)) = "dir"
    /\ Exists(f, p) => NodeType(f, p) # "dir"

WriteFile(f, p, bytes) ==
    [q \in DOMAIN f \cup {p} |-> IF q = p THEN FileNode(bytes) ELSE f[q]]

\* fsp.readdir(dir): the entries directly under dir
Children(f, dir) == {q \in DOMAIN f : Len(q) = Len(dir) + 1 /\ IsPrefix(dir, q)}

----------------------------------------------------------------------------
(* Blob codec: readDirRecursive and writeFilesFromMap                      *)

EmptyMap == [k \in {} |-> <<>>]

\* a walk that records each file under its path relative to the directory
\* being read instead of AUTH_ROOT
RECURSIVE readDirRecursiveRelDir(_, _)
readDirRecursiveRelDir(f, dir) ==
    IF ~(Exists(f, dir) /\ NodeType(f, dir) = "dir") THEN EmptyMap
    ELSE LET ents == Children(f, dir)
             files == {e \in ents : f[e].type = "file"}
             dirs == {e \in ents : f[e].type = "dir"}
             own == {PathRelative(dir, e) : e \in files}
             below == UNION {DOMAIN readDirRecursiveRelDir(f, d) : d \in dirs}
         IN [k \in own \cup below |->
                IF k \in own
                THEN Base64Encode(f[CHOOSE e \in files : PathRelative(dir, e) = k].data)
                ELSE readDirRecursiveRelDir(f, CHOOSE d \in dirs : k \in DOMAIN readDirRecursiveRelDir(f, d))[k]]

\* readDirRecursive(dir): regular files are recorded under their path relative
\* to AUTH_ROOT, directories are descended into, anything else is skipped; a
\* readdir that throws (no such directory) leaves the empty result
RECURSIVE readDirRecursive(_, _)
readDirRecursive(f, dir) ==
    IF ~(Exists(f, dir) /\ NodeType(f, dir) = "dir") THEN EmptyMap
    ELSE LET ents == Children(f, dir)
             files == {e \in ents : f[e].type = "file"}
             dirs == {e \in ents : f[e].type = "dir"}
             own == {PathRelative(AUTH_ROOT, e) : e \in files}
             below == UNION {DOMAIN readDirRecursive(f, d) : d \in dirs}
         IN [k \in own \cup below |->
                IF k \in own
                THEN Base64Encode(f[CHOOSE e \in files : PathRelative(AUTH_ROOT, e) = k].data)
                ELSE readDirRecursive(f, CHOOSE d \in dirs : k \in DOMAIN readDirRecursive(f, d))[k]]

\* one iteration of writeFilesFromMap's loop: where the entry goes
EntryPath(relPath) == PathJoin(AUTH_ROOT, relPath)

\* whether the iteration's mkdir and writeFile both resolve
WriteEntryOk(f, relPath) ==
    /\ MkdirOk(f, Dirname(EntryPath(relPath)))
    /\ WriteFileOk(Mkdir(f, Dirname(EntryPath(relPath))), EntryPath(relPath))

\* a restore that empties the entry's directory before it writes the file
WriteEntryWiping(f, relPath, text) ==
    LET absPath == EntryPath(relPath)
        dir == Dirname(absPath)
        kept == [q \in {r \in DOMAIN f : ~(IsPrefix(dir, r) /\ r # dir)} |-> f[q]]
    IN IF ~MkdirOk(f, dir) THEN f
       ELSE IF ~WriteFileOk(Mkdir(f, dir), absPath) THEN Mkdir(f, dir)
       ELSE WriteFile(Mkdir(kept, dir), absPath, Base64Decode(text))

\* the file system after the iteration (after the mkdir alone when writeFile rejects)
WriteEntry(f, relPath, text) ==
    LET absPath == EntryPath(relPath)
        dir == Dirname(absPath)
    IN IF ~MkdirOk(f, dir) THEN f
       ELSE IF ~WriteFileOk(Mkdir(f, dir), absPath) THEN Mkdir(f, dir)
       ELSE WriteFile(Mkdir(f, dir), absPath, Base64Decode(text))

----------------------------------------------------------------------------
(* Remote store rows                                                       *)

NoAuthRow == [exists |-> FALSE, folder |-> EmptyMap]

AuthRow(map) == [exists |-> TRUE, folder |-> map]

NoSessionRow == [exists |-> FALSE, qr_code |-> NULL, status |-> NULL]

\* the orders in which Object.keys may list the keys of a map read from the store
Orders(S) == {o \in [1..Cardinality(S) -> S] : \A i, j \in 1..Cardinality(S) : o[i] = o[j] => i = j}

NoRestore == [phase |-> "none", code |-> NULL, keys |-> <<>>, map |-> EmptyMap,
              before |-> EmptyMap, written |-> {}, errored |-> {}]

----------------------------------------------------------------------------
(* Start of the process: index.js:135-158 and 339-355                      *)

\* line 135: await fsp.mkdir(AUTH_DIR, {recursive: true}); a rejection ends the
\* process (uncaught at module top level).  Line 136 then sends the select.
BootMkdir ==
    /\ proc = "boot"
    /\ IF MkdirOk(fs, AUTH_DIR)
       THEN fs' = Mkdir(fs, AUTH_DIR) /\ proc' = "loading"
       ELSE fs' = fs /\ proc' = "crashed"
    /\ UNCHANGED <<authRow, sessionRow, isReady, currentQR, restore, handlers, sends, fsOps, failures, shut, source, msgs>>

\* loadSessionFolderFromDB, lines 87-99: .single() answers with the row, and
\* writeFilesFromMap starts on its keys in the order Object.keys lists them
LoadRow ==
    /\ proc = "loading"
    /\ authRow.exists
    /\ \E order \in Orders(DOMAIN authRow.folder) :
          /\ restore' = [phase |-> IF Len(order) = 0 THEN "done" ELSE "active",
                         code |-> NULL, keys |-> order, map |-> authRow.folder,
                         before |-> fs, written |-> {}, errored |-> {}]
          /\ proc' = IF Len(order) = 0 THEN "loaded" ELSE "restoring"
    /\ UNCHANGED <<fs, authRow, sessionRow, isReady, currentQR, handlers,
                   sends, fsOps, failures, shut, source, msgs>>

\* a load that takes every error of the answer for a failure
LoadBranchAnyError(code) == IF code # NULL THEN "error" ELSE "absent"

\* lines 93-103, for an answer without data: an error other than the store's
\* not-found code is logged as a failure (94), anything else as no session (102)
LoadBranch(code) == IF code # NULL /\ code # "PGRST116" THEN "error" ELSE "absent"

\* no row: .single() answers with the error code PGRST116 and data null
LoadNotFound ==
    /\ proc = "loading"
    /\ ~authRow.exists
    /\ restore' = [NoRestore EXCEPT !.phase = LoadBranch("PGRST116"), !.code = "PGRST116",
                                    !.before = fs]
    /\ proc' = "loaded"
    /\ UNCHANGED <<fs, authRow, sessionRow, isReady, currentQR, handlers,
                   sends, fsOps, failures, shut, source, msgs>>

\* a load without the catch of line 104: the rejection ends the process
LoadFailsHard(outcome) ==
    /\ proc = "loading"
    /\ outcome \in {"error", "throw"}
    /\ restore' = [NoRestore EXCEPT !.phase = outcome]
    /\ proc' = IF outcome = "throw" THEN "crashed" ELSE "loaded"
    /\ UNCHANGED <<fs, authRow, sessionRow, isReady, currentQR, handlers,
                   sends, fsOps, failures, shut, source, msgs>>

\* lines 93-96 and 104-106: any other error, or the awaited call rejecting
LoadFails(outcome) ==
    /\ proc = "loading"
    /\ outcome \in {"error", "throw"}
    /\ restore' = [NoRestore EXCEPT !.phase = IF outcome = "error" THEN LoadBranch("08006") ELSE outcome,
                                    !.code = IF outcome = "error" THEN "08006" ELSE NULL,
                                    !.before = fs]
    /\ proc' = "loaded"
    /\ UNCHANGED <<fs, authRow, sessionRow, isReady, currentQR, handlers,
                   sends, fsOps, failures, shut, source, msgs>>

\* writeFilesFromMap, lines 76-82: one iteration.  A rejected mkdir or writeFile
\* leaves the loop by the exception, which loadSessionFolderFromDB catches (104)
RestoreEntry ==
    /\ proc = "restoring"
    /\ LET relPath == Head(restore.keys)
           ok == WriteEntryOk(fs, relPath)
           rest == Tail(restore.keys)
       IN /\ fs' = WriteEntry(fs, relPath, restore.map[relPath])
          /\ restore' = [restore EXCEPT
                           !.keys = rest,
                           !.written = IF ok THEN @ \cup {relPath} ELSE @,
                           !.errored = IF ok THEN @ ELSE @ \cup {relPath},
                           !.phase = IF ~ok THEN "failed"
                                     ELSE IF Len(rest) = 0 THEN "done" ELSE "active"]
          /\ proc' = IF ok /\ Len(rest) > 0 THEN "restoring" ELSE "loaded"
    /\ UNCHANGED <<authRow, sessionRow, isReady, currentQR, handlers, sends, fsOps, failures, shut, source, msgs>>

\* lines 141-355: the client is constructed, its handlers and the HTTP routes
\* are registered, client.initialize() is called, the signal handlers installed
ClientInitialize ==
    /\ proc = "loaded"
    /\ proc' = "running"
    /\ UNCHANGED <<fs, authRow, sessionRow, isReady, currentQR, restore, handlers, sends, fsOps, failures, shut, source, msgs>>

----------------------------------------------------------------------------
(* saveSessionFolderToDB, lines 109-130                                    *)

\* line 112: the map to save (the walk of the folder is taken as one step)
SnapshotMap(f) == readDirRecursive(f, AUTH_ROOT)

\* a save without the guard of line 113
SaveNeverSkips(fileMap) == FALSE

\* line 113: nothing to save, return without a write
SaveSkips(fileMap) == Cardinality(DOMAIN fileMap) = 0

\* what the store may answer to the upsert of line 118-120; "throw" is the
\* awaited call rejecting
SaveOutcomes == {"ok", "error", "throw"}

\* a save that appends each file's text to the text stored under its key
UpsertFolderAppending(row, fileMap, outcome) ==
    IF outcome = "ok"
    THEN AuthRow([k \in DOMAIN fileMap |->
                    IF k \in DOMAIN row.folder THEN row.folder[k] \o fileMap[k]
                    ELSE fileMap[k]])
    ELSE row

\* a save that merges the map into the stored one, keeping the keys it lacks
UpsertFolderMerging(row, fileMap, outcome) ==
    IF outcome = "ok"
    THEN AuthRow([k \in DOMAIN fileMap \cup DOMAIN row.folder |->
                    IF k \in DOMAIN fileMap THEN fileMap[k] ELSE row.folder[k]])
    ELSE row

\* the store's row after the upsert of {id: 1, folder: fileMap} was answered
UpsertFolder(row, fileMap, outcome) ==
    IF outcome = "ok" THEN AuthRow(fileMap) ELSE row

\* a save without the catch of line 127
SaveRethrows(outcome) ==
    CASE outcome = "ok" -> "returned"
      [] outcome = "error" -> "returned"
      [] outcome = "throw" -> "threw"

\* lines 122-129: every outcome is logged, by the else branch, the error
\* branch or the catch, and the function returns normally
SaveReturns(outcome) ==
    CASE outcome = "ok" -> "returned"
      [] outcome = "error" -> "returned"
      [] outcome = "throw" -> "returned"

----------------------------------------------------------------------------
(* Lifecycle events of the protocol client, lines 161-219                  *)

EventKinds == {"qr", "authenticated", "ready", "disconnected"}

\* the text of the n-th event's QR code: the client issues a fresh one each time
QRCodes == <<"qr-1", "qr-2", "qr-3", "qr-4", "qr-5", "qr-6", "qr-7", "qr-8">>

\* the synchronous head of each handler (lines 163, 178, 196, 210)
ReadyAfter(kind, ready) ==
    IF kind = "ready" THEN TRUE
    ELSE IF kind = "disconnected" THEN FALSE
    ELSE ready

QRAfter(kind, qr, cur) ==
    IF kind = "qr" THEN qr
    ELSE IF kind = "authenticated" THEN NULL
    ELSE cur

\* the write each handler sends to whatsapp_sessions (lines 165-172, 180-187,
\* 198-201, 212-215) applied to the row: the first two upsert the whole row,
\* the last two update the status of the row with id 1, if there is one
StatusWrite(kind, qr, row) ==
    CASE kind = "qr" ->
            [exists |-> TRUE, qr_code |-> qr, status |-> "waiting_scan"]
      [] kind = "authenticated" ->
            [exists |-> TRUE, qr_code |-> NULL, status |-> "connected"]
      [] kind = "ready" ->
            IF row.exists THEN [row EXCEPT !.status = "ready"] ELSE row
      [] kind = "disconnected" ->
            IF row.exists THEN [row EXCEPT !.status = "disconnected"] ELSE row

\* whether the write reaches a row at all
StatusWrites(kind, row) == kind \in {"qr", "authenticated"} \/ row.exists

\* handlers of which the ready one alone takes a snapshot
TakesSnapshotOnReady(kind) == kind = "ready"

\* only the qr handler ends after its status write (line 173)
TakesSnapshot(kind) == kind # "qr"

Handler(kind, qr) ==
    [kind |-> kind, qr |-> qr, pc |-> "status_sent", sout |-> "none",
     map |-> EmptyMap, out |-> "none"]

\* the client emits an event: the handler runs to its first await
Emit(kind, limit) ==
    /\ proc = "running"
    /\ Len(handlers) < limit
    /\ LET qr == IF kind = "qr" THEN QRCodes[Len(handlers) + 1] ELSE NULL
       IN /\ handlers' = Append(handlers, Handler(kind, qr))
          /\ isReady' = ReadyAfter(kind, isReady)
          /\ currentQR' = QRAfter(kind, qr, currentQR)
    /\ UNCHANGED <<proc, fs, authRow, sessionRow, restore, sends, fsOps, failures, shut, source, msgs>>

\* the store answers handler i's status write, applying it unless it fails
StoreStatus(i, outcome, limit) ==
    /\ handlers[i].pc = "status_sent"
    /\ outcome # "ok" => failures < limit
    /\ failures' = IF outcome = "ok" THEN failures ELSE failures + 1
    /\ LET h == handlers[i]
           applied == outcome = "ok" /\ StatusWrites(h.kind, sessionRow)
       IN /\ sessionRow' = IF applied THEN StatusWrite(h.kind, h.qr, sessionRow)
                                      ELSE sessionRow
          /\ handlers' = [handlers EXCEPT ![i].pc = "status_answered", ![i].sout = outcome]
    /\ UNCHANGED <<proc, fs, authRow, isReady, currentQR, restore, sends, fsOps, shut, source, msgs>>

\* handler i continues after its status write: it ends (qr), or calls
\* saveSessionFolderToDB, which returns at once or sends the upsert
AfterStatus(i) ==
    /\ proc = "running"
    /\ handlers[i].pc = "status_answered"
    /\ LET fileMap == SnapshotMap(fs)
       IN handlers' =
            IF ~TakesSnapshot(handlers[i].kind)
            THEN [handlers EXCEPT ![i].pc = "done"]
            ELSE IF SaveSkips(fileMap)
            THEN [handlers EXCEPT ![i].pc = "done", ![i].out = "empty"]
            ELSE [handlers EXCEPT ![i].pc = "blob_sent", ![i].map = fileMap]
    /\ UNCHANGED <<proc, fs, authRow, sessionRow, isReady, currentQR, restore, sends, fsOps, failures, shut, source, msgs>>

\* the store answers handler i's upsert of the folder and saveSessionFolderToDB
\* returns to the handler, which ends; an exception that left it would be an
\* unhandled rejection, which ends the process
StoreBlob(i, outcome, limit) ==
    /\ handlers[i].pc = "blob_sent"
    /\ outcome # "ok" => failures < limit
    /\ failures' = IF outcome = "ok" THEN failures ELSE failures + 1
    /\ authRow' = UpsertFolder(authRow, handlers[i].map, outcome)
    /\ IF SaveReturns(outcome) = "returned"
       THEN /\ handlers' = [handlers EXCEPT ![i].pc = "done", ![i].out = outcome]
            /\ proc' = proc
       ELSE /\ handlers' = [handlers EXCEPT ![i].pc = "threw", ![i].out = outcome]
            /\ proc' = IF proc = "running" THEN "crashed" ELSE proc
    /\ UNCHANGED <<fs, sessionRow, isReady, currentQR, restore, sends, fsOps, shut, source, msgs>>

----------------------------------------------------------------------------
(* The protocol client's own use of the session folder (LocalAuth, 141-145) *)

CredsFile == AUTH_DIR \o <<"creds">>

\* the client (re)writes a session file
ClientWritesFile(limit) ==
    /\ proc = "running"
    /\ fsOps < limit
    /\ fs' = WriteFile(Mkdir(fs, AUTH_DIR), CredsFile, <<fsOps + 1>>)
    /\ fsOps' = fsOps + 1
    /\ UNCHANGED <<proc, authRow, sessionRow, isReady, currentQR, restore, handlers, sends, failures, shut, source, msgs>>

\* the client removes its session folder (logout)
ClientRemovesSession(limit) ==
    /\ proc = "running"
    /\ fsOps < limit
    /\ AUTH_DIR \in DOMAIN fs
    /\ fs' = [q \in {r \in DOMAIN fs : ~IsPrefix(AUTH_DIR, r)} |-> fs[q]]
    /\ fsOps' = fsOps + 1
    /\ UNCHANGED <<proc, authRow, sessionRow, isReady, currentQR, restore, handlers, sends, failures, shut, source, msgs>>

----------------------------------------------------------------------------
(* POST /send-message, lines 319-334                                       *)

\* a request body's "to": a string, given as its parts, or missing
SendTargets ==
    {[defined |-> TRUE, text |-> <<"5511", "@c.us">>],
     [defined |-> TRUE, text |-> <<"5511">>],
     [defined |-> FALSE, text |-> <<>>]}

Includes(text, part) == \E j \in DOMAIN text : text[j] = part

\* line 327
ChatId(to) == IF Includes(to.text, "@c.us") THEN to.text ELSE Append(to.text, "@c.us")

\* a route that sends whatever the connection state is
SendGateOpen(ready) == "send"

\* line 322
SendGate(ready) == IF ~ready THEN "reject" ELSE "send"

\* the request runs to its answer or to the await of client.sendMessage;
\* to.includes throws inside the try when "to" is missing
PostSendMessage(to, limit) ==
    /\ proc = "running"
    /\ Len(sends) < limit
    /\ sends' = Append(sends,
          IF SendGate(isReady) = "reject"
          THEN [to |-> to, ready |-> isReady, calls |-> 0, chatId |-> <<>>, pc |-> "done",
                status |-> 503, body |-> "not connected", sent |-> "none"]
          ELSE IF ~to.defined
          THEN [to |-> to, ready |-> isReady, calls |-> 0, chatId |-> <<>>, pc |-> "done",
                status |-> 500, body |-> "error.message", sent |-> "none"]
          ELSE [to |-> to, ready |-> isReady, calls |-> 1, chatId |-> ChatId(to),
                pc |-> "sending", status |-> 0, body |-> "none", sent |-> "pending"])
    /\ UNCHANGED <<proc, fs, authRow, sessionRow, isReady, currentQR, restore, handlers,
                   fsOps, failures, shut, source, msgs>>

\* client.sendMessage settles: line 329, or the catch of lines 330-333
SendMessageSettles(i, ok) ==
    /\ proc = "running"
    /\ sends[i].pc = "sending"
    /\ sends' = [sends EXCEPT ![i] =
          IF ok
          THEN [@ EXCEPT !.pc = "done", !.status = 200, !.body = "success", !.sent = "ok"]
          ELSE [@ EXCEPT !.pc = "done", !.status = 500, !.body = "error.message",
                         !.sent = "failed"]]
    /\ UNCHANGED <<proc, fs, authRow, sessionRow, isReady, currentQR, restore, handlers,
                   fsOps, failures, shut, source, msgs>>

----------------------------------------------------------------------------
(* shutdown, lines 347-355                                                 *)

\* SIGINT or SIGTERM: shutdown() runs into saveSessionFolderToDB, which
\* returns at once (and the process exits) or sends the upsert
Signal(limit) ==
    /\ proc = "running"
    /\ Len(shut) < limit
    /\ LET fileMap == SnapshotMap(fs)
       IN IF SaveSkips(fileMap)
          THEN /\ shut' = Append(shut, [pc |-> "exited", map |-> EmptyMap, out |-> "empty"])
               /\ proc' = "exited"
          ELSE /\ shut' = Append(shut, [pc |-> "blob_sent", map |-> fileMap, out |-> "none"])
               /\ proc' = proc
    /\ UNCHANGED <<fs, authRow, sessionRow, isReady, currentQR, restore, handlers,
                   sends, fsOps, failures, source, msgs>>

\* the store answers the upsert of shutdown i
ShutdownStore(i, outcome) ==
    /\ shut[i].pc = "blob_sent"
    /\ authRow' = UpsertFolder(authRow, shut[i].map, outcome)
    /\ shut' = [shut EXCEPT ![i].pc = "answered", ![i].out = outcome]
    /\ UNCHANGED <<proc, fs, sessionRow, isReady, currentQR, restore, handlers,
                   sends, fsOps, failures, source, msgs>>

\* saveSessionFolderToDB returned to shutdown i: process.exit(0), line 352
ShutdownExit(i) ==
    /\ proc = "running"
    /\ shut[i].pc = "answered"
    /\ shut' = [shut EXCEPT ![i].pc = "exited"]
    /\ proc' = "exited"
    /\ UNCHANGED <<fs, authRow, sessionRow, isReady, currentQR, restore, handlers,
                   sends, fsOps, failures, source, msgs>>

----------------------------------------------------------------------------
(* Specifications                                                          *)

MaxEvents == 2

MaxFailures == 1

MaxFsOps == 1

\* the volume before the process first runs: the application and its code
BaseTree == [p \in {AppDir, AppDir \o <<"index.js">>} |->
                IF p = AppDir THEN DirNode ELSE FileNode(<<105, 106>>)]

\* the folder as line 135 leaves it on a fresh volume, and with a session file
BootedTree == Mkdir(BaseTree, AUTH_DIR)

SessionTree == WriteFile(BootedTree, CredsFile, <<77, 97, 110>>)

\* The process after its start, the client initialized
Init ==
    /\ proc = "running"
    /\ \/ fs = BootedTree /\ authRow = NoAuthRow
       \/ fs = SessionTree /\ authRow = AuthRow(SnapshotMap(SessionTree))
    /\ sessionRow = NoSessionRow
    /\ isReady = FALSE
    /\ currentQR = NULL
    /\ restore = NoRestore
    /\ handlers = <<>>
    /\ sends = <<>>
    /\ fsOps = 0
    /\ failures = 0
    /\ shut = <<>>
    /\ source = EmptyMap
    /\ msgs = <<>>

Next ==
    \/ \E kind \in EventKinds : Emit(kind, MaxEvents)
    \/ \E i \in DOMAIN handlers : \E outcome \in {"ok", "error"} : StoreStatus(i, outcome, MaxFailures)
    \/ \E i \in DOMAIN handlers : AfterStatus(i)
    \/ \E i \in DOMAIN handlers : \E outcome \in SaveOutcomes : StoreBlob(i, outcome, MaxFailures)
    \/ ClientWritesFile(MaxFsOps)
    \/ ClientRemovesSession(MaxFsOps)

Spec == Init /\ [][Next]_vars

----------------------------------------------------------------------------
(* Claims about the lifecycle handlers and the snapshot                    *)

\* C1: the status row holds a QR code only while its status is waiting_scan
C1_QrOnlyWhileWaitingScan ==
    (sessionRow.exists /\ sessionRow.qr_code # NULL) => sessionRow.status = "waiting_scan"

InFlightOrStored(map) ==
    \/ authRow.exists /\ authRow.folder = map
    \/ \E i \in DOMAIN handlers : handlers[i].pc = "blob_sent" /\ handlers[i].map = map

\* C5: a snapshot of a tree without files sends no write, so that no upsert
\* in flight carries an empty map and the stored map is never an empty one
C5_EmptySnapshotWritesNothing == ~InFlightOrStored(EmptyMap)

\* a handler took its snapshot of a tree without files while a map was
\* stored, and ended; the stored map is the one of the start
C5_Witness ==
    /\ authRow = AuthRow(SnapshotMap(SessionTree))
    /\ SnapshotMap(fs) = EmptyMap
    /\ \E i \in DOMAIN handlers : handlers[i].pc = "done" /\ handlers[i].out = "empty"

\* C9: when the store fails a handler's upsert of the folder, by an error or
\* by the call throwing, the stored map stays as it was, the handler ends
\* normally and the process goes on
C9_SaveFailureContained ==
    [][\A i \in DOMAIN handlers :
         (handlers[i].pc = "blob_sent" /\ handlers'[i].pc # "blob_sent"
              /\ handlers'[i].out \in {"error", "throw"})
         => (handlers'[i].pc = "done" /\ proc' = "running" /\ authRow' = authRow)]_vars

\* a handler whose save threw has ended, the process running, the map kept
C9_Witness ==
    /\ proc = "running"
    /\ authRow = AuthRow(SnapshotMap(SessionTree))
    /\ \E i \in DOMAIN handlers : handlers[i].pc = "done" /\ handlers[i].out = "throw"
                                       /\ handlers[i].map # authRow.folder

----------------------------------------------------------------------------
(* The events in the order of a normal session                             *)

Canonical == <<"qr", "authenticated", "ready", "disconnected">>

EmitCanonical ==
    /\ Len(handlers) < Len(Canonical)
    /\ Emit(Canonical[Len(handlers) + 1], Len(Canonical))

SequenceNext ==
    \/ EmitCanonical
    \/ \E i \in DOMAIN handlers : StoreStatus(i, "ok", 0)
    \/ \E i \in DOMAIN handlers : AfterStatus(i)
    \/ \E i \in DOMAIN handlers : StoreBlob(i, "ok", 0)

SpecSequence == Init /\ [][SequenceNext]_vars

AllHandled ==
    /\ Len(handlers) = Len(Canonical)
    /\ \A i \in DOMAIN handlers : handlers[i].pc = "done"

\* C2: over the events qr, authenticated, ready, disconnected the status of
\* the row only ever moves one step along waiting_scan, connected, ready,
\* disconnected, and it is disconnected once all four handlers have ended
C2_StatusInOrder ==
    /\ [][sessionRow'.status # sessionRow.status =>
            <<sessionRow.status, sessionRow'.status>> \in
                {<<NULL, "waiting_scan">>, <<"waiting_scan", "connected">>,
                 <<"connected", "ready">>, <<"ready", "disconnected">>}]_vars
    /\ [](AllHandled => sessionRow.status = "disconnected")

----------------------------------------------------------------------------
(* The send route beside the lifecycle                                     *)

MaxSends == 2

MaxApiEvents == 1

ApiNext ==
    \/ \E kind \in EventKinds : Emit(kind, MaxApiEvents)
    \/ \E i \in DOMAIN handlers : StoreStatus(i, "ok", 0)
    \/ \E i \in DOMAIN handlers : AfterStatus(i)
    \/ \E i \in DOMAIN handlers : StoreBlob(i, "ok", 0)
    \/ \E to \in SendTargets : PostSendMessage(to, MaxSends)
    \/ \E i \in DOMAIN sends : \E ok \in BOOLEAN : SendMessageSettles(i, ok)

SpecApi == Init /\ [][ApiNext]_vars

Answered(r, status, sent) == r.pc = "done" /\ r.status = status /\ r.sent = sent

\* C3 as stated: a request handled while not ready is answered 503 without a
\* call of client.sendMessage; one handled while ready calls it once and is
\* answered success, or 500 when the call fails
C3_SendGating ==
    \A n \in DOMAIN sends :
        LET r == sends[n]
        IN /\ ~r.ready => Answered(r, 503, "none") /\ r.calls = 0
           /\ r.ready =>
                /\ r.calls = 1
                /\ r.pc = "done" => Answered(r, 200, "ok") \/ Answered(r, 500, "failed")

\* C3 amended: the same for a request whose "to" is a string; a request
\* without one, handled while ready, is answered 500 without a call
C3_SendGatingOfStrings ==
    \A n \in DOMAIN sends :
        LET r == sends[n]
        IN /\ ~r.ready => Answered(r, 503, "none") /\ r.calls = 0
           /\ (r.ready /\ r.to.defined) =>
                /\ r.calls = 1
                /\ r.chatId = ChatId(r.to)
                /\ r.pc = "done" => Answered(r, 200, "ok") \/ Answered(r, 500, "failed")
           /\ (r.ready /\ ~r.to.defined) => Answered(r, 500, "none") /\ r.calls = 0

\* one request was refused while not ready, another sent and answered success
C3_Witness ==
    \E n, m \in DOMAIN sends :
        /\ ~sends[n].ready /\ Answered(sends[n], 503, "none")
        /\ sends[m].ready /\ sends[m].calls = 1 /\ Answered(sends[m], 200, "ok")

----------------------------------------------------------------------------
(* Termination signals                                                     *)

MaxSignals == 2

MaxShutdownEvents == 1

ShutdownNext ==
    \/ \E kind \in EventKinds : Emit(kind, MaxShutdownEvents)
    \/ \E i \in DOMAIN handlers : StoreStatus(i, "ok", 0)
    \/ \E i \in DOMAIN handlers : AfterStatus(i)
    \/ \E i \in DOMAIN handlers : StoreBlob(i, "ok", 0)
    \/ Signal(MaxSignals)
    \/ \E i \in DOMAIN shut : \E outcome \in SaveOutcomes : ShutdownStore(i, outcome)
    \/ \E i \in DOMAIN shut : ShutdownExit(i)

\* what the process itself does next is done: the event loop runs every
\* continuation that is ready.  Nothing obliges the store to answer
ProcessSteps ==
    \/ \E i \in DOMAIN handlers : AfterStatus(i)
    \/ \E i \in DOMAIN shut : ShutdownExit(i)

SpecShutdown == Init /\ [][ShutdownNext]_vars /\ WF_vars(ProcessSteps)

\* C8: after a termination signal the process eventually exits, even when
\* the store never answers the final save
C8_ShutdownExits == (Len(shut) > 0) ~> (proc = "exited")

----------------------------------------------------------------------------
(* The start of the process, over the volumes and stored rows it may meet   *)

RootA == AUTH_ROOT \o <<"a.txt">>

\* a volume that kept a file of an earlier run
TreeWithA == WriteFile(Mkdir(BaseTree, AUTH_ROOT), RootA, <<1>>)

\* a volume where x is a directory
TreeWithDirX == Mkdir(BaseTree, AUTH_ROOT \o <<"x">>)

\* a volume where the session folder's name is taken by a file
TreeBlocked == WriteFile(Mkdir(BaseTree, AUTH_ROOT), AUTH_DIR, <<>>)

LocalTrees == {BaseTree, TreeWithA, TreeWithDirX, TreeBlocked}

Man == Base64Encode(<<77, 97, 110>>)

\* maps the row may hold: a snapshot of this program, and maps whose keys
\* meet a local file, leave the root, pass through "..", or contradict each other
BlobSession == SnapshotMap(SessionTree)

BlobB == [k \in {<<"b.txt">>, <<"session-default", "creds">>} |->
             IF k = <<"b.txt">> THEN Base64Encode(<<3, 4>>) ELSE Man]

BlobA == [k \in {<<"a.txt">>} |-> Base64Encode(<<2>>)]

BlobEscaping == [k \in {<<"..", "index.js">>, <<"b.txt">>} |-> Man]

BlobDotDot == [k \in {<<"session-default", "..", "b.txt">>} |-> Man]

BlobClash == [k \in {<<"x">>, <<"x", "y">>, <<"b.txt">>} |-> Man]

StoredRows == {NoAuthRow} \cup
    {AuthRow(m) : m \in {BlobSession, BlobB, BlobA, BlobEscaping, BlobDotDot, BlobClash}}

BootInit ==
    /\ proc = "boot"
    /\ fs \in LocalTrees
    /\ authRow \in StoredRows
    /\ sessionRow = NoSessionRow
    /\ isReady = FALSE
    /\ currentQR = NULL
    /\ restore = NoRestore
    /\ handlers = <<>>
    /\ sends = <<>>
    /\ fsOps = 0
    /\ failures = 0
    /\ shut = <<>>
    /\ source = EmptyMap
    /\ msgs = <<>>

BootNext ==
    \/ BootMkdir
    \/ LoadRow
    \/ LoadNotFound
    \/ \E outcome \in {"error", "throw"} : LoadFails(outcome)
    \/ RestoreEntry
    \/ ClientInitialize

SpecBoot == BootInit /\ [][BootNext]_vars

----------------------------------------------------------------------------
(* Claims about the restore at the start                                   *)

RestoreRan == restore.phase \in {"active", "done", "failed"}

\* the nodes the restore created or changed
Touched == {p \in DOMAIN fs : p \notin DOMAIN restore.before \/ fs[p] # restore.before[p]}

\* C4: restoring a blob never creates or changes a node outside the session
\* root, whatever its keys are
C4_RestoreStaysInRoot ==
    RestoreRan => \A p \in Touched : IsPrefix(AUTH_ROOT, p)

\* C6: a restore is non-destructive.  Every node that is not the target of a
\* blob key is still there, unchanged; the files created or overwritten are
\* targets of keys already processed and hold the decoded value of such a key;
\* and a pass that ends without an error has written every key of the blob
C6_RestoreNonDestructive ==
    RestoreRan =>
        LET targets == {EntryPath(k) : k \in DOMAIN restore.map}
        IN /\ \A p \in DOMAIN restore.before :
                p \notin targets => p \in DOMAIN fs /\ fs[p] = restore.before[p]
           /\ \A p \in Touched :
                fs[p].type = "file" =>
                    \E k \in restore.written :
                        /\ EntryPath(k) = p
                        /\ fs[p].data = Base64Decode(restore.map[k])
           /\ \A k \in restore.written :
                /\ EntryPath(k) \in DOMAIN fs
                /\ fs[EntryPath(k)].type = "file"
           /\ restore.phase = "done" => restore.written = DOMAIN restore.map

\* a finished restore of b.txt into a root that held a.txt, which the blob lacks
C6_Witness ==
    /\ restore.phase = "done"
    /\ RootA \in DOMAIN restore.before
    /\ RootA \notin {EntryPath(k) : k \in DOMAIN restore.map}
    /\ fs[RootA] = FileNode(<<1>>)
    /\ <<"b.txt">> \in restore.written
    /\ AUTH_ROOT \o <<"b.txt">> \notin DOMAIN restore.before
    /\ fs[AUTH_ROOT \o <<"b.txt">>] = FileNode(<<3, 4>>)

\* C10: when the restore pass is over, every entry of the blob was written,
\* except those whose own mkdir or writeFile failed
C10_OnlyFailingEntrySkipped ==
    (proc \in {"loaded", "running"} /\ RestoreRan) =>
        restore.written \cup restore.errored = DOMAIN restore.map

----------------------------------------------------------------------------
(* The codec's round trip: a tree is encoded, the map is stored, and a      *)
(* process starting on an empty volume restores it                          *)

CookiesFile == AUTH_DIR \o <<"Default", "Cookies">>

CodecFiles == {CredsFile, CookiesFile, RootA}

CodecContents == {<<>>, <<77>>, <<77, 97>>, <<77, 97, 110>>, <<255, 0, 16, 1>>}

WithFile(f, p, S, c) == IF p \in S THEN WriteFile(Mkdir(f, Dirname(p)), p, c[p]) ELSE f

\* the tree with the files S, holding the contents c, and an empty directory
TreeOf(S, c) ==
    WithFile(WithFile(WithFile(Mkdir(BaseTree, AUTH_DIR \o <<"Cache">>),
                               CredsFile, S, c), CookiesFile, S, c), RootA, S, c)

\* the regular files under the root, by path
RegularFiles(f) ==
    [p \in {q \in DOMAIN f : IsPrefix(AUTH_ROOT, q) /\ f[q].type = "file"} |-> f[p].data]

CodecInit ==
    /\ proc = "snapshot"
    /\ \E S \in SUBSET CodecFiles : \E c \in [CodecFiles -> CodecContents] : fs = TreeOf(S, c)
    /\ authRow = NoAuthRow
    /\ sessionRow = NoSessionRow
    /\ isReady = FALSE
    /\ currentQR = NULL
    /\ restore = NoRestore
    /\ handlers = <<>>
    /\ sends = <<>>
    /\ fsOps = 0
    /\ failures = 0
    /\ shut = <<>>
    /\ source = EmptyMap
    /\ msgs = <<>>

\* the tree is encoded and the map stored; the next process starts elsewhere
EncodeTree ==
    /\ proc = "snapshot"
    /\ source' = fs
    /\ authRow' = AuthRow(SnapshotMap(fs))
    /\ fs' = BaseTree
    /\ proc' = "boot"
    /\ UNCHANGED <<sessionRow, isReady, currentQR, restore, handlers, sends, fsOps,
                   failures, shut, msgs>>

CodecNext ==
    \/ EncodeTree
    \/ BootMkdir
    \/ LoadRow
    \/ RestoreEntry

SpecCodec == CodecInit /\ [][CodecNext]_vars

\* C7: the keys of the encoding of a tree of regular files are the relative
\* paths of its files, never of a directory, and once the restore into an
\* empty root is over the root holds the same files with the same contents
C7_RoundTrip ==
    /\ proc # "snapshot" =>
          /\ authRow.exists
          /\ DOMAIN authRow.folder = {PathRelative(AUTH_ROOT, p) : p \in DOMAIN RegularFiles(source)}
          /\ \A k \in DOMAIN authRow.folder : source[AUTH_ROOT \o k].type = "file"
    /\ proc \in {"loading", "restoring", "loaded"} => restore.phase # "failed"
    /\ proc = "loaded" =>
          /\ restore.phase = "done"
          /\ RegularFiles(fs) = RegularFiles(source)

\* a round trip of three files, one of them two directories down, is over
C7_Witness ==
    /\ proc = "loaded"
    /\ DOMAIN RegularFiles(source) = CodecFiles
    /\ source[CookiesFile].data = <<255, 0, 16, 1>>
    /\ source[CredsFile].data = <<77>>
    /\ fs[CookiesFile] = FileNode(<<255, 0, 16, 1>>)

----------------------------------------------------------------------------
(* Claims about the load at the start                                      *)

\* C11: when the store answers the load with its not-found code, the load
\* takes the branch of no saved session and returns: nothing was written, the
\* local tree is the one the load met, and the start goes on to the client
C11_NotFoundIsAbsent ==
    restore.code = "PGRST116" =>
        /\ restore.phase = "absent"
        /\ proc \in {"loaded", "running"}
        /\ restore.written = {} /\ restore.errored = {}
        /\ fs = restore.before

\* the client was initialized after a not-found answer, on a volume that had
\* kept a file of an earlier run
C11_Witness ==
    /\ restore.code = "PGRST116"
    /\ restore.phase = "absent"
    /\ proc = "running"
    /\ RootA \in DOMAIN fs /\ fs[RootA] = FileNode(<<1>>)

----------------------------------------------------------------------------
(* Claims about the disconnected event                                     *)

\* C12: once the handler of a disconnected event has ended, no event having
\* followed it, the status row exists with status disconnected and isReady
\* is false, whatever the state the event arrived in
C12_DisconnectedRecorded ==
    \A i \in DOMAIN handlers :
        (i = Len(handlers) /\ handlers[i].kind = "disconnected" /\ handlers[i].pc = "done") =>
            /\ sessionRow.exists
            /\ sessionRow.status = "disconnected"
            /\ ~isReady

----------------------------------------------------------------------------
(* Snapshots taken one after the other: each event arrives once the handler *)
(* of the one before has ended                                             *)

MaxSaveEvents == 2

SnapshotKinds == {kind \in EventKinds : TakesSnapshot(kind)}

NoneInFlight == \A i \in DOMAIN handlers : handlers[i].pc \in {"done", "threw"}

EmitAfterLast(kind) == NoneInFlight /\ Emit(kind, MaxSaveEvents)

\* a running process whose stored map is the one of an earlier run, which had
\* a file b.txt that the volume no longer holds
SavesInit ==
    /\ proc = "running"
    /\ fs \in {BootedTree, SessionTree}
    /\ authRow = AuthRow(BlobB)
    /\ sessionRow = NoSessionRow
    /\ isReady = FALSE
    /\ currentQR = NULL
    /\ restore = NoRestore
    /\ handlers = <<>>
    /\ sends = <<>>
    /\ fsOps = 0
    /\ failures = 0
    /\ shut = <<>>
    /\ source = EmptyMap
    /\ msgs = <<>>

SavesNext ==
    \/ \E kind \in SnapshotKinds : EmitAfterLast(kind)
    \/ \E i \in DOMAIN handlers : StoreStatus(i, "ok", 0)
    \/ \E i \in DOMAIN handlers : AfterStatus(i)
    \/ \E i \in DOMAIN handlers : \E outcome \in SaveOutcomes : StoreBlob(i, outcome, MaxFailures)
    \/ ClientWritesFile(MaxFsOps)
    \/ ClientRemovesSession(MaxFsOps)

SpecSaves == SavesInit /\ [][SavesNext]_vars

\* the step in which handler j's call of saveSessionFolderToDB returns
CallEnds(j) ==
    /\ handlers[j].pc \in {"status_answered", "blob_sent"}
    /\ handlers'[j].pc = "done"

C14_SaveReplaces ==
    [][\A i \in DOMAIN handlers :
         /\ (handlers[i].pc = "status_answered" /\ handlers'[i].pc = "blob_sent") =>
               /\ DOMAIN handlers'[i].map =
                     {PathRelative(AUTH_ROOT, p) : p \in DOMAIN RegularFiles(fs)}
               /\ \A p \in DOMAIN RegularFiles(fs) :
                     handlers'[i].map[PathRelative(AUTH_ROOT, p)] = Base64Encode(fs[p].data)
         /\ (handlers[i].pc = "blob_sent" /\ handlers'[i].out = "ok") =>
               /\ authRow'.exists
               /\ authRow'.folder = handlers[i].map]_vars

\* the store applied a snapshot of the session file alone over a map that
\* also held b.txt: b.txt is gone from the stored map
C14_Witness ==
    /\ \E i \in DOMAIN handlers :
          /\ handlers[i].pc = "done" /\ handlers[i].out = "ok"
          /\ authRow.folder = handlers[i].map
    /\ DOMAIN authRow.folder = {<<"session-default", "creds">>}
    /\ <<"b.txt">> \in DOMAIN BlobB

----------------------------------------------------------------------------
(* The order of the start: index.js:135-136 are awaited at the top level of *)
(* the module, before the statements that construct and start the client   *)

\* what the process does next by itself once the store has answered the load
BootSteps == RestoreEntry \/ ClientInitialize

SpecBootFair == BootInit /\ [][BootNext]_vars /\ WF_vars(BootSteps)

RestoreOver == restore.phase \in {"done", "failed", "absent", "error", "throw"}

\* C15: the client is initialized only when the restore is over, the restore
\* once over is never taken up again and the tree is not written to from
\* then on, and whatever the load's outcome the client is initialized
C15_RestoreBeforeClient ==
    /\ [](proc = "running" => RestoreOver)
    /\ [][RestoreOver => (restore' = restore /\ fs' = fs)]_vars
    /\ (restore.phase # "none") ~> (proc = "running")

\* the client was initialized after a restore that wrote one entry and then
\* failed on another
C15_Witness ==
    /\ proc = "running"
    /\ restore.phase = "failed"
    /\ restore.written # {}
    /\ restore.errored # {}

----------------------------------------------------------------------------
(* Overlapping snapshots: authenticated and ready in quick succession, the  *)
(* store answering the saves only once both handlers have taken their      *)
(* snapshot, in either order                                               *)

OverlapEvents == <<"authenticated", "ready">>

EmitPair ==
    /\ Len(handlers) < Len(OverlapEvents)
    /\ Emit(OverlapEvents[Len(handlers) + 1], Len(OverlapEvents))

\* both calls of saveSessionFolderToDB are past their encoding of the tree
BothEncoded ==
    /\ Len(handlers) = Len(OverlapEvents)
    /\ \A i \in DOMAIN handlers : handlers[i].pc \in {"blob_sent", "done"}

OverlapNext ==
    \/ EmitPair
    \/ \E i \in DOMAIN handlers : StoreStatus(i, "ok", 0)
    \/ \E i \in DOMAIN handlers : AfterStatus(i)
    \/ \E i \in DOMAIN handlers : \E outcome \in SaveOutcomes :
          BothEncoded /\ StoreBlob(i, outcome, MaxFailures)
    \/ ClientWritesFile(MaxFsOps)
    \/ ClientRemovesSession(MaxFsOps)

SpecOverlap == SavesInit /\ [][OverlapNext]_vars

BothSaved(outs) ==
    /\ Len(handlers) = Len(OverlapEvents)
    /\ \A i \in DOMAIN handlers : handlers[i].pc = "done" /\ handlers[i].out \in outs

\* C16: when both handlers have sent their save of the same tree, the tree
\* being that one still, and both have ended, the store having applied at
\* least one of the two, the stored map is the encoding of the tree,
\* whichever of the two the store answered last
C16_OverlappingSavesAgree ==
    (/\ BothSaved(SaveOutcomes)
     /\ \E i \in DOMAIN handlers : handlers[i].out = "ok"
     /\ handlers[1].map = handlers[2].map
     /\ handlers[1].map = SnapshotMap(fs))
    => authRow = AuthRow(SnapshotMap(fs))

\* both saves of the session file were in flight together and were applied;
\* the stored map, which had held b.txt too, is the encoding of the tree
C16_Witness ==
    /\ BothSaved({"ok"})
    /\ handlers[1].map = handlers[2].map
    /\ handlers[1].map = SnapshotMap(fs)
    /\ DOMAIN SnapshotMap(fs) = {<<"session-default", "creds">>}
    /\ authRow = AuthRow(SnapshotMap(fs))

\* C20: when the tree changed between the two encodings, the ready handler
\* having taken the newer one, and the store has applied both saves, the
\* stored map is the newer encoding
C20_NewerSnapshotWins ==
    (/\ BothSaved({"ok"})
     /\ handlers[1].map # handlers[2].map
     /\ handlers[2].map = SnapshotMap(fs))
    => authRow.folder = handlers[2].map

----------------------------------------------------------------------------
(* The two snapshot triggers, authenticated then ready, the store answering *)
(* every status write and the process running every continuation that is   *)
(* ready                                                                   *)

SnapshotTriggers == {OverlapEvents[n] : n \in DOMAIN OverlapEvents}

TriggersNext ==
    \/ EmitPair
    \/ \E i \in DOMAIN handlers : \E outcome \in {"ok", "error"} : StoreStatus(i, outcome, MaxFailures)
    \/ \E i \in DOMAIN handlers : AfterStatus(i)
    \/ \E i \in DOMAIN handlers : \E outcome \in SaveOutcomes : StoreBlob(i, outcome, MaxFailures)

\* the store answers a status write, with a result or with an error
StatusAnswers ==
    \E i \in DOMAIN handlers : \E outcome \in {"ok", "error"} : StoreStatus(i, outcome, MaxFailures)

\* the event loop resumes a handler whose status write was answered
HandlerSteps == \E i \in DOMAIN handlers : AfterStatus(i)

SpecTriggers ==
    Init /\ [][TriggersNext]_vars /\ WF_vars(StatusAnswers) /\ WF_vars(HandlerSteps)

\* the handler's call of saveSessionFolderToDB has encoded the tree, and sent
\* the map or found nothing to send
Attempted(h) ==
    \/ h.pc = "blob_sent"
    \/ h.pc \in {"done", "threw"} /\ h.out # "none"

\* every handler of an authenticated or ready event so far has made its attempt
AllAttempted ==
    \A i \in DOMAIN handlers :
        handlers[i].kind \in SnapshotTriggers => Attempted(handlers[i])

----------------------------------------------------------------------------
(* The message handler, lines 222-306                                      *)

\* an invocation: where it is, and for its call of client.sendMessage how
\* often it was made and what isReady was when it was made
Message == [pc |-> "tenant", calls |-> 0, ready |-> FALSE]

\* the client delivers a message while it is connected, after its ready
\* event and before its disconnected event; the handler runs to the await
\* of the tenant select (228)
MessageArrives(limit) ==
    /\ proc = "running"
    /\ isReady
    /\ Len(msgs) < limit
    /\ msgs' = Append(msgs, Message)
    /\ UNCHANGED <<proc, fs, authRow, sessionRow, isReady, currentQR, restore, handlers,
                   sends, fsOps, failures, shut, source>>

\* one await of the handler resolves and the handler runs to its next one
MessageStep(i, from, to) ==
    /\ proc = "running"
    /\ msgs[i].pc = from
    /\ msgs' = [msgs EXCEPT ![i].pc = to]
    /\ UNCHANGED <<proc, fs, authRow, sessionRow, isReady, currentQR, restore, handlers,
                   sends, fsOps, failures, shut, source>>

\* lines 228-245: no tenant, or an error, ends the handler (234-237);
\* otherwise the clients select is sent
TenantAnswers(i, found) == MessageStep(i, "tenant", IF found THEN "client" ELSE "done")

\* lines 247-273: a known client's message is logged; an unknown one is inserted first
ClientAnswers(i, found) == MessageStep(i, "client", IF found THEN "inbound" ELSE "new_client")

\* lines 258-273: an insert error ends the handler, otherwise the message is logged
ClientInserted(i, ok) == MessageStep(i, "new_client", IF ok THEN "inbound" ELSE "done")

\* lines 266-287: the insert's result is not read; the assistant is called
InboundLogged(i) == MessageStep(i, "inbound", "assistant")

\* lines 289-292: a call that throws goes to the catch of 303, an answer
\* without a response ends the handler, and one with a response is passed to
\* client.sendMessage, with no look at isReady
AssistantAnswers(i, answer) ==
    /\ proc = "running"
    /\ msgs[i].pc = "assistant"
    /\ answer \in {"response", "none", "throw"}
    /\ msgs' = [msgs EXCEPT ![i] =
          IF answer = "response"
          THEN [pc |-> "sending", calls |-> @.calls + 1, ready |-> isReady]
          ELSE [@ EXCEPT !.pc = "done"]]
    /\ UNCHANGED <<proc, fs, authRow, sessionRow, isReady, currentQR, restore, handlers,
                   sends, fsOps, failures, shut, source>>

\* lines 292-301: the reply sent, it is logged; a rejected send goes to the catch
ReplySettles(i, ok) == MessageStep(i, "sending", IF ok THEN "outbound" ELSE "done")

\* lines 294-302
OutboundLogged(i) == MessageStep(i, "outbound", "done")

MaxMessages == 1

MaxRelayEvents == 2

RelayNext ==
    \/ \E kind \in EventKinds : Emit(kind, MaxRelayEvents)
    \/ \E i \in DOMAIN handlers : StoreStatus(i, "ok", 0)
    \/ \E i \in DOMAIN handlers : AfterStatus(i)
    \/ \E i \in DOMAIN handlers : StoreBlob(i, "ok", 0)
    \/ MessageArrives(MaxMessages)
    \/ \E i \in DOMAIN msgs : \E found \in BOOLEAN : TenantAnswers(i, found)
    \/ \E i \in DOMAIN msgs : \E found \in BOOLEAN : ClientAnswers(i, found)
    \/ \E i \in DOMAIN msgs : \E ok \in BOOLEAN : ClientInserted(i, ok)
    \/ \E i \in DOMAIN msgs : InboundLogged(i)
    \/ \E i \in DOMAIN msgs : \E answer \in {"response", "none", "throw"} : AssistantAnswers(i, answer)
    \/ \E i \in DOMAIN msgs : \E ok \in BOOLEAN : ReplySettles(i, ok)
    \/ \E i \in DOMAIN msgs : OutboundLogged(i)

SpecRelay == Init /\ [][RelayNext]_vars

\* C18: every call of client.sendMessage by the message handler was made
\* while isReady was true
C18_ReplyOnlyWhileReady ==
    \A i \in DOMAIN msgs : msgs[i].calls > 0 => msgs[i].ready

----------------------------------------------------------------------------
(* The local flags against the status row                                  *)

\* C19: whenever no lifecycle handler is in flight, isReady is true exactly
\* when the row's status is ready, and currentQR and the row's qr_code are
\* both null or both the same code
C19_FlagsMatchRecord ==
    NoneInFlight =>
        /\ isReady <=> (sessionRow.exists /\ sessionRow.status = "ready")
        /\ currentQR = (IF sessionRow.exists THEN sessionRow.qr_code ELSE NULL)

====
